---- MODULE Spec2Model ----
(***************************************************************************)
(* NeuroSigNet Pro: the HTTP/WebSocket application (main.py) and the       *)
(* installer (installer_advanced.py) as state machines.                    *)
(*                                                                         *)
(* The web application runs on one asyncio event loop: a coroutine runs    *)
(* without interruption from one await to the next, so every action below  *)
(* is the code between two awaits of one coroutine.  The installer is a    *)
(* sequential program; its actions are the calls install() makes.          *)
(*                                                                         *)
(* Failures of the environment are modelled where the code provides a      *)
(* handler for them (the try blocks of process_document,                   *)
(* handle_progress_websocket, check_system_requirements and install).      *)
(* Taken as given: uuid.uuid4() never repeats an identifier; no coroutine  *)
(* is cancelled from outside; in install(), creating the installation      *)
(* directory and the console prompts succeed; every port                   *)
(* find_available_port tries is a valid port number.                       *)
(***************************************************************************)
EXTENDS Integers, Sequences, FiniteSets, TLC

\* ------------------------------------------------------------------ bounds

\* Number of identifiers uuid.uuid4() hands out in one run of the model.
MaxUuid == 3
\* Number of process_document coroutines the server has in flight at once.
MaxInFlight == 2
\* Longest list of files one batch-analyze request carries.
MaxBatchLen == 2
\* Number of text frames the client sends on the progress connection.
MaxWsMsgs == 2
\* Largest max_attempts of the calls of find_available_port made besides the
\* one with the default arguments.
MaxAttempts == 3

\* ------------------------------------------------------------ input domains

\* UploadFile.filename split at "/" (the name is chosen by the client).
Filenames == {<<"a.png">>, <<"d", "a.png">>}
\* The bytes of an upload.
Contents == {<<7>>, <<8, 9>>}
UploadFiles == [filename : Filenames, content : Contents]
\* The files batches are made of: one that can be stored, one that cannot.
BatchFiles ==
    {[filename |-> <<"a.png">>, content |-> <<7>>],
     [filename |-> <<"d", "a.png">>, content |-> <<8, 9>>]}

Languages == {"auto", "ru"}
AllOptions ==
    [enhance_quality : BOOLEAN, detect_signatures : BOOLEAN,
     detect_seals : BOOLEAN, language : Languages]
\* The Form(...) defaults of the analyze route.
DefaultOptions ==
    [enhance_quality |-> TRUE, detect_signatures |-> TRUE,
     detect_seals |-> TRUE, language |-> "auto"]

RECURSIVE SeqsUpTo(_, _)
SeqsUpTo(S, n) ==
    IF n = 0 THEN {<<>>}
    ELSE LET shorter == SeqsUpTo(S, n - 1)
         IN shorter \cup {Append(s, e) : s \in {t \in shorter : Len(t) = n - 1}, e \in S}

\* query parameters of the history route
HistoryQueries ==
    {[page |-> 1, limit |-> 20], [page |-> 0, limit |-> 0], [page |-> -1, limit |-> -5]}

\* The exceptions the upload path can meet: class and str(e).
Exc(cls, msg) == [cls |-> cls, msg |-> msg]
ReadErrors ==
    {Exc("ValueError", "I/O operation on closed file."),
     Exc("OSError", "[Errno 5] Input/output error")}
OpenErrors == {Exc("PermissionError", "[Errno 13] Permission denied")}
WriteErrors == {Exc("OSError", "[Errno 28] No space left on device")}
NoSuchDir == Exc("FileNotFoundError", "[Errno 2] No such file or directory")
NoExc == Exc("", "")

\* Python's exception hierarchy, as far as these classes go.
BaseOf(cls) ==
    CASE cls = "FileNotFoundError" -> "OSError"
      [] cls = "PermissionError" -> "OSError"
      [] cls = "OSError" -> "Exception"
      [] cls = "ValueError" -> "Exception"
      [] cls = "Exception" -> "BaseException"
      [] OTHER -> "object"

RECURSIVE IsSubclass(_, _)
IsSubclass(cls, base) ==
    \/ cls = base
    \/ cls \notin {"object", "BaseException"} /\ IsSubclass(BaseOf(cls), base)

VARIABLES
    \* the upload API
    nextUuid,   \* how many identifiers uuid4 has handed out
    fs,         \* the uploads directory: path -> bytes
    docs,       \* process_document coroutines in flight
    batches,    \* process_batch coroutines in flight
    lastResp,   \* the response most recently returned to a client
    \* the progress connection (one WebSocket)
    wsPc,       \* where handle_progress_websocket stands
    wsInbox,    \* frames the client has sent and receive_text has not returned
    wsMsg,      \* message: the subscription being served
    wsProgress, \* index into range(0, 101, 10) of the next update
    wsLog,      \* what the handler has received and sent, in order
    clientGone, \* the client has closed the connection
    clientLog,  \* the text frames the client has sent, in order
    \* the installer
    instPc,     \* where install() stands
    instEnv,    \* what the installer finds: privileges, Python version, disk
    instReq,    \* what check_system_requirements returned
    instDir,    \* install_dir has been created by install()
    instStep,   \* index into steps of the step to run next
    instSuccess,\* the local variable success
    instLog,    \* the steps called so far and how each ended
    instWarn,   \* the steps reported as "completed with warnings"
    instResult, \* what install() returned
    \* install_python_dependencies
    depPc,      \* where install_python_dependencies stands
    depIdx,     \* index into dependencies of the one to install next
    depLog,     \* the pip runs made so far and how each ended
    success_count,
    depResult,  \* what install_python_dependencies returned
    \* find_available_port
    portPc,     \* where find_available_port stands
    portArgs,   \* start_port and max_attempts of the call
    portIdx,    \* index into range(start_port, start_port + max_attempts)
    portLog,    \* the binds attempted so far and how each ended
    portResult  \* what find_available_port returned

apiVars == <<nextUuid, fs, docs, batches, lastResp>>
wsVars == <<wsPc, wsInbox, wsMsg, wsProgress, wsLog, clientGone, clientLog>>
instVars ==
    <<instPc, instEnv, instReq, instDir, instStep, instSuccess, instLog, instWarn,
      instResult>>
depVars == <<depPc, depIdx, depLog, success_count, depResult>>
portVars == <<portPc, portArgs, portIdx, portLog, portResult>>
vars == <<apiVars, wsVars, instVars, depVars, portVars>>

\* --------------------------------------------------------------- helpers

\* str(uuid.uuid4()): identifiers are fresh; all have the same length.
Uuid4(n) == "u" \o ToString(n + 1)

\* A path that leaves the identifier out.
FilePathByName(task_id, filename) == <<"uploads", Head(filename)>> \o Tail(filename)

\* f"uploads/{task_id}_{file.filename}", split at "/"
FilePath(task_id, filename) ==
    <<"uploads", task_id \o "_" \o Head(filename)>> \o Tail(filename)

\* The directory a path lies in exists: only uploads/ does (setup_directories),
\* and no entry of it is a directory.
ParentExists(path) == Len(path) = 2

\* A result whose signature count also looks at the language hint.
ResultByLanguage(d) ==
    [task_id |-> d.task_id,
     filename |-> d.file.filename,
     processed |-> TRUE,
     signatures_found |->
        IF d.opts.detect_signatures /\ d.opts.language = "auto" THEN 2 ELSE 0,
     seals_found |-> IF d.opts.detect_seals THEN 1 ELSE 0,
     quality_enhanced |-> d.opts.enhance_quality,
     analysis |-> [confidence |-> "0.95", processing_time |-> "2.1s",
                   document_type |-> "contract"]]

\* A result whose seal count follows the wrong flag.
ResultSealsBySignatures(d) ==
    [task_id |-> d.task_id,
     filename |-> d.file.filename,
     processed |-> TRUE,
     signatures_found |-> IF d.opts.detect_signatures THEN 2 ELSE 0,
     seals_found |-> IF d.opts.detect_signatures THEN 1 ELSE 0,
     quality_enhanced |-> d.opts.enhance_quality,
     analysis |-> [confidence |-> "0.95", processing_time |-> "2.1s",
                   document_type |-> "contract"]]

\* the result dict of process_document
ResultOf(d) ==
    [task_id |-> d.task_id,
     filename |-> d.file.filename,
     processed |-> TRUE,
     signatures_found |-> IF d.opts.detect_signatures THEN 2 ELSE 0,
     seals_found |-> IF d.opts.detect_seals THEN 1 ELSE 0,
     quality_enhanced |-> d.opts.enhance_quality,
     analysis |-> [confidence |-> "0.95", processing_time |-> "2.1s",
                   document_type |-> "contract"]]

SuccessValue(d) == [success |-> TRUE, task_id |-> d.task_id, result |-> ResultOf(d)]

\* the except branch of process_document
ErrorValue(msg) == [success |-> FALSE, error |-> msg]

\* A handler that is "except OSError".
CatchesOSErrorOnly(cls) == IsSubclass(cls, "OSError")

\* "except Exception": the classes the handler of process_document catches
Catches(cls) == IsSubclass(cls, "Exception")

\* A history that counts the stored uploads.
HistoryCountsUploads(page, limit) ==
    [page |-> page, limit |-> limit, total |-> Cardinality(DOMAIN fs), results |-> <<>>]

\* the dict get_history returns
HistoryValue(page, limit) ==
    [page |-> page, limit |-> limit, total |-> 0, results |-> <<>>]

\* the dict process_batch returns
BatchValue(task_id, results) ==
    [success |-> TRUE, task_id |-> task_id,
     processed_files |-> Len(results), results |-> results]

\* the options process_batch passes to process_document
BatchOptions ==
    [enhance_quality |-> TRUE, detect_signatures |-> TRUE,
     detect_seals |-> TRUE, language |-> "auto"]

\* A loop that stops at the first file that failed.
BatchStopsAtFailure(files, results) ==
    /\ Len(results) < Len(files)
    /\ results = <<>> \/ results[Len(results)].success

\* "for file in files": the loop of process_batch goes on to another file
BatchGoesOn(files, results) == Len(results) < Len(files)

\* the dict DocumentProcessor.process returns
ProcessorValue(file_path, task_id, options) ==
    [task_id |-> task_id, status |-> "completed",
     results |-> [signatures_found |-> 2, seals_found |-> 1, quality_score |-> "0.95"]]

\* An exception that left the route's coroutine: the framework answers 500.
Escaped(exc) == [escaped |-> exc.cls]

NoOwner == "-"

\* A process_document coroutine just entered: task_id drawn, file.read() awaited.
NewDoc(task_id, file, opts, owner) ==
    [task_id |-> task_id, file |-> file, opts |-> opts, owner |-> owner, pc |-> "read"]

BatchOf(d) == CHOOSE b \in batches : b.task_id = d.owner

\* process_document(d) ends with value (returned, or an exception that escaped
\* it, exc telling what was raised inside): the analyze route responds with it;
\* process_batch appends a returned value and goes on with the next file or
\* returns, and is left by an exception.
Return(d, value, exc, fsNew) ==
    /\ fs' = fsNew
    /\ IF d.owner = NoOwner
       THEN /\ lastResp' = [api |-> "analyze",
                            req |-> [file |-> d.file, opts |-> d.opts, raised |-> exc],
                            body |-> value]
            /\ docs' = docs \ {d}
            /\ UNCHANGED <<nextUuid, batches>>
       ELSE LET b == BatchOf(d)
                results == Append(b.results, value)
            IN IF "escaped" \in DOMAIN value
               THEN /\ docs' = docs \ {d}
                    /\ batches' = batches \ {b}
                    /\ lastResp' = [api |-> "batch",
                                    req |-> [files |-> b.files, attempts |-> b.attempts],
                                    body |-> value]
                    /\ UNCHANGED nextUuid
               ELSE IF BatchGoesOn(b.files, results)
               THEN /\ docs' = (docs \ {d}) \cup
                           {NewDoc(Uuid4(nextUuid), b.files[Len(results) + 1],
                                   BatchOptions, b.task_id)}
                    /\ nextUuid' = nextUuid + 1
                    /\ batches' = (batches \ {b}) \cup
                           {[b EXCEPT !.results = results,
                                      !.attempts = Append(@, Len(results) + 1)]}
                    /\ UNCHANGED lastResp
               ELSE /\ docs' = docs \ {d}
                    /\ batches' = batches \ {b}
                    /\ lastResp' = [api |-> "batch",
                                    req |-> [files |-> b.files, attempts |-> b.attempts],
                                    body |-> BatchValue(b.task_id, results)]
                    /\ UNCHANGED nextUuid

\* exc is raised inside the try block of process_document.
Raise(d, exc, fsNew) ==
    IF Catches(exc.cls)
    THEN Return(d, ErrorValue(exc.msg), exc, fsNew)
    ELSE Return(d, Escaped(exc), exc, fsNew)

\* ---------------------------------------------------------------- actions

\* POST /api/v1/analyze: process_document up to its first await.
AnalyzeDocument(file, opts) ==
    /\ UNCHANGED <<wsVars, instVars, depVars, portVars>>
    /\ nextUuid < MaxUuid
    /\ Cardinality(docs) < MaxInFlight
    /\ docs' = docs \cup {NewDoc(Uuid4(nextUuid), file, opts, NoOwner)}
    /\ nextUuid' = nextUuid + 1
    /\ UNCHANGED <<fs, batches, lastResp>>

\* await file.read() raises.
ReadFails(d) ==
    /\ UNCHANGED <<wsVars, instVars, depVars, portVars>>
    /\ d \in docs /\ d.pc = "read"
    /\ \E exc \in ReadErrors : Raise(d, exc, fs)

\* await file.read() returns the bytes; the file is written; asyncio.sleep(2)
\* is awaited.  open() or write() may raise; a failed write leaves the file
\* truncated to what was written.
ReadCompletes(d) ==
    /\ UNCHANGED <<wsVars, instVars, depVars, portVars>>
    /\ d \in docs /\ d.pc = "read"
    /\ LET path == FilePath(d.task_id, d.file.filename)
           content == d.file.content
       IN IF ~ParentExists(path)
          THEN Raise(d, NoSuchDir, fs)
          ELSE \/ \E exc \in OpenErrors : Raise(d, exc, fs)
               \/ \E exc \in WriteErrors, n \in 0..(Len(content) - 1) :
                     Raise(d, exc, (path :> SubSeq(content, 1, n)) @@ fs)
               \/ /\ fs' = (path :> content) @@ fs
                  /\ docs' = (docs \ {d}) \cup {[d EXCEPT !.pc = "sleep"]}
                  /\ UNCHANGED <<nextUuid, batches, lastResp>>

\* asyncio.sleep(2) is over: the result is built and returned.
SleepCompletes(d) ==
    /\ UNCHANGED <<wsVars, instVars, depVars, portVars>>
    /\ d \in docs /\ d.pc = "sleep"
    /\ Return(d, SuccessValue(d), NoExc, fs)

\* POST /api/v1/batch-analyze: process_batch up to its first await.
BatchAnalyze(files) ==
    /\ UNCHANGED <<wsVars, instVars, depVars, portVars>>
    /\ nextUuid + Len(files) < MaxUuid
    /\ Cardinality(docs) < MaxInFlight
    /\ batches = {}
    /\ LET task_id == Uuid4(nextUuid)
       IN IF BatchGoesOn(files, <<>>)
          THEN /\ batches' = batches \cup
                     {[task_id |-> task_id, files |-> files, results |-> <<>>,
                       attempts |-> <<1>>]}
               /\ docs' = docs \cup
                     {NewDoc(Uuid4(nextUuid + 1), files[1], BatchOptions, task_id)}
               /\ nextUuid' = nextUuid + 2
               /\ UNCHANGED <<fs, lastResp>>
          ELSE /\ lastResp' = [api |-> "batch",
                               req |-> [files |-> files, attempts |-> <<>>],
                               body |-> BatchValue(task_id, <<>>)]
               /\ nextUuid' = nextUuid + 1
               /\ UNCHANGED <<fs, docs, batches>>

\* GET /api/v1/history
GetHistory(page, limit) ==
    /\ UNCHANGED <<wsVars, instVars, depVars, portVars>>
    /\ lastResp' = [api |-> "history", req |-> [page |-> page, limit |-> limit],
                    body |-> HistoryValue(page, limit)]
    /\ UNCHANGED <<nextUuid, fs, docs, batches>>

\* DocumentProcessor().process(file_path, task_id, **options)
ProcessorProcess(file_path, task_id, options) ==
    /\ UNCHANGED <<wsVars, instVars, depVars, portVars>>
    /\ lastResp' = [api |-> "processor",
                    req |-> [file_path |-> file_path, task_id |-> task_id,
                             opts |-> options],
                    body |-> ProcessorValue(file_path, task_id, options)]
    /\ UNCHANGED <<nextUuid, fs, docs, batches>>

\* ------------------------------------------------ the progress WebSocket

\* A key a JSON object does not have.
Missing == "<missing>"

\* The text frames a client sends: JSON objects with or without "type" and
\* "task_id", JSON text that is not an object, and text that is not JSON.
JsonObject(type, task_id) == [json |-> "object", type |-> type, task_id |-> task_id]
JsonArray == [json |-> "array", type |-> Missing, task_id |-> Missing]
NotJson == [json |-> "invalid", type |-> Missing, task_id |-> Missing]
ClientFrames ==
    {JsonObject("subscribe_progress", "t1"), JsonObject("subscribe_progress", "t2"),
     JsonObject("subscribe_progress", Missing), JsonObject("ping", "t1"),
     JsonObject(Missing, Missing), JsonArray, NotJson}

\* The websocket.disconnect event, which receive_text turns into
\* WebSocketDisconnect.
Disconnect == [json |-> "disconnect", type |-> Missing, task_id |-> Missing]

\* json.loads(data) succeeds.
JsonLoads(data) == data.json \in {"object", "array"}

\* message has the method get: it is a dict.
HasGet(message) == message.json = "object"

\* A handler that serves every message that names a task.
ServesAnyTask(message) == message.task_id /= Missing

\* message.get("type") == "subscribe_progress"
Subscribes(message) == message.type = "subscribe_progress"

RECURSIVE Range(_, _, _)
\* list(range(start, stop, step)) for a positive step
Range(start, stop, step) ==
    IF start >= stop THEN <<>> ELSE <<start>> \o Range(start + step, stop, step)

\* A loop whose stop value leaves out the last update.
ProgressValuesTo90 == Range(0, 100, 10)

\* range(0, 101, 10)
ProgressValues == Range(0, 101, 10)

\* the progress_update message of one iteration
ProgressUpdate(message, progress) ==
    [type |-> "progress_update", task_id |-> message.task_id,
     progress |-> progress, status |-> "processing"]

\* A handler that also takes the next frame while it is emitting.
ReceivesWhileEmitting(pc) == pc \in {"receive", "emit"}

\* The handler is suspended in "await websocket.receive_text()".
AwaitsReceive(pc) == pc = "receive"

Received(data) == [ev |-> "recv", data |-> data]
Sent(msg) == [ev |-> "send", msg |-> msg]

\* The client sends a text frame.
ClientSend(data) ==
    /\ wsPc \in {"receive", "emit"}
    /\ ~clientGone
    /\ Len(clientLog) < MaxWsMsgs
    /\ wsInbox' = Append(wsInbox, data)
    /\ clientLog' = Append(clientLog, data)
    /\ UNCHANGED <<wsPc, wsMsg, wsProgress, wsLog, clientGone>>
    /\ UNCHANGED <<apiVars, instVars, depVars, portVars>>

\* The client closes the connection.
ClientDisconnect ==
    /\ wsPc \in {"receive", "emit"}
    /\ ~clientGone
    /\ clientGone' = TRUE
    /\ wsInbox' = Append(wsInbox, Disconnect)
    /\ UNCHANGED <<wsPc, wsMsg, wsProgress, wsLog, clientLog>>
    /\ UNCHANGED <<apiVars, instVars, depVars, portVars>>

\* receive_text() returns the next frame or raises WebSocketDisconnect, which
\* ends the handler; json.loads and message.get follow, and with type
\* "subscribe_progress" the loop is entered up to its first sleep.  Text that
\* is not JSON, and JSON that is not an object, raise exceptions the handler
\* does not catch.
WsReceive ==
    /\ AwaitsReceive(wsPc)
    /\ wsInbox /= <<>>
    /\ LET data == Head(wsInbox)
       IN /\ wsInbox' = Tail(wsInbox)
          /\ IF data = Disconnect
             THEN /\ wsPc' = "ended"
                  /\ UNCHANGED <<wsMsg, wsProgress, wsLog>>
             ELSE /\ wsLog' = Append(wsLog, Received(data))
                  /\ IF ~JsonLoads(data) \/ ~HasGet(data)
                     THEN wsPc' = "crashed" /\ UNCHANGED <<wsMsg, wsProgress>>
                     ELSE IF Subscribes(data)
                     THEN wsPc' = "emit" /\ wsMsg' = data /\ wsProgress' = 1
                     ELSE wsPc' = "receive" /\ UNCHANGED <<wsMsg, wsProgress>>
    /\ UNCHANGED <<clientGone, clientLog>>
    /\ UNCHANGED <<apiVars, instVars, depVars, portVars>>

\* What follows a completed send_text: the next iteration, or the end of the
\* for loop and back to receive_text.
AfterSend ==
    /\ wsProgress' = wsProgress + 1
    /\ wsPc' = IF wsProgress + 1 > Len(ProgressValues) THEN "receive" ELSE "emit"

\* One iteration: the sleep is over, the update is built and send_text is
\* awaited.  A message without "task_id" raises KeyError, which the handler
\* does not catch.  On a connection the client has closed, send_text raises
\* WebSocketDisconnect (the handler ends) or another error (uncaught), or the
\* server still accepts the frame, depending on the framework's version.
WsEmit ==
    /\ wsPc = "emit"
    /\ wsProgress <= Len(ProgressValues)
    /\ IF wsMsg.task_id = Missing
       THEN wsPc' = "crashed" /\ UNCHANGED <<wsProgress, wsLog>>
       ELSE LET update == ProgressUpdate(wsMsg, ProgressValues[wsProgress])
            IN \/ /\ wsLog' = Append(wsLog, Sent(update))
                  /\ AfterSend
               \/ /\ clientGone
                  /\ wsPc' \in {"ended", "crashed"}
                  /\ UNCHANGED <<wsProgress, wsLog>>
    /\ UNCHANGED <<wsInbox, wsMsg, clientGone, clientLog>>
    /\ UNCHANGED <<apiVars, instVars, depVars, portVars>>

\* --------------------------------------------------------- the installer

\* The module imports winreg, so it runs on Windows only: self.system is
\* "windows" in every run.

\* sys.version_info (major, minor) of the interpreters the installer may run on
PythonVersions == {<<3, 6>>, <<3, 7>>, <<3, 8>>, <<3, 12>>, <<4, 0>>}

\* shutil.disk_usage(...).free in KiB, or the call raising
KiBPerGiB == 1048576
DiskReadings ==
    {[ok |-> TRUE, free |-> f] : f \in {0, 2 * KiBPerGiB - 1, 2 * KiBPerGiB, 8 * KiBPerGiB}}
    \cup {[ok |-> FALSE, free |-> 0]}

InstallEnvs == [admin : BOOLEAN, python : PythonVersions, disk : DiskReadings]

\* Python's comparison of two pairs
TupleGE(a, b) == a[1] > b[1] \/ (a[1] = b[1] /\ a[2] >= b[2])

\* A comparison of major and minor each on its own.
EachGE(a, b) == a[1] >= b[1] /\ a[2] >= b[2]

\* (python_version.major, python_version.minor) >= (3, 8)
PythonOk(version) == TupleGE(version, <<3, 8>>)

\* disk_free >= 2, disk_free being free / 1024**3
DiskOk(free) == free >= 2 * KiBPerGiB

\* A check that takes a failed measurement for a lack of space.
RequirementsMetStrict(env) == PythonOk(env.python) /\ env.disk.ok /\ DiskOk(env.disk.free)

\* what check_system_requirements returns
RequirementsMet(env) ==
    LET afterPython == IF PythonOk(env.python) THEN TRUE ELSE FALSE
    IN IF ~env.disk.ok THEN afterPython
       ELSE IF DiskOk(env.disk.free) THEN afterPython ELSE FALSE

\* the list steps of install(), by function name
Steps ==
    <<"install_main_application", "install_python_dependencies",
      "create_desktop_shortcut", "create_start_menu_entry", "add_uninstall_entry",
      "create_uninstaller", "create_sample_data", "finalize_installation">>

\* How a call of each step function can end: with a truthy value, with a falsy
\* value (False or None), or with an exception.
StepOutcomes(step) ==
    CASE step = "install_main_application" -> {"truthy", "raise"}
      [] step = "install_python_dependencies" -> {"truthy", "falsy", "raise"}
      [] step = "create_desktop_shortcut" -> {"truthy", "falsy"}
      [] step = "create_start_menu_entry" -> {"truthy", "falsy"}
      [] step = "add_uninstall_entry" -> {"falsy"}
      [] step = "create_uninstaller" -> {"falsy"}
      [] step = "create_sample_data" -> {"falsy", "raise"}
      [] step = "finalize_installation" -> {"falsy", "raise"}

\* A loop that takes a step's falsy value for a failure.
StepFailsUnlessTruthy(outcome) == outcome /= "truthy"

\* the except branch of the loop: success = False; break
StepFails(outcome) == outcome = "raise"

\* "if not step_function()": the warning
StepWarns(outcome) == outcome = "falsy"

\* run_as_admin(): without administrator rights the installer starts itself
\* again elevated and this process exits.
RunAsAdmin ==
    /\ instPc = "start"
    /\ instPc' = IF instEnv.admin THEN "check" ELSE "exit"
    /\ UNCHANGED <<instEnv, instReq, instDir, instStep, instSuccess, instLog,
                   instWarn, instResult>>
    /\ UNCHANGED <<apiVars, wsVars, depVars, portVars>>

\* "if not self.check_system_requirements(): ... return False", else the
\* installation directory is created and the loop entered with success = True.
CheckRequirements ==
    /\ instPc = "check"
    /\ instReq' = IF RequirementsMet(instEnv) THEN "True" ELSE "False"
    /\ IF RequirementsMet(instEnv)
       THEN /\ instDir' = TRUE
            /\ instPc' = "steps"
            /\ UNCHANGED instResult
       ELSE /\ instResult' = "False"
            /\ instPc' = "returned"
            /\ UNCHANGED instDir
    /\ UNCHANGED <<instEnv, instStep, instSuccess, instLog, instWarn>>
    /\ UNCHANGED <<apiVars, wsVars, depVars, portVars>>

\* One iteration of "for step_name, step_function in steps".
RunStep(outcome) ==
    /\ instPc = "steps"
    /\ instStep <= Len(Steps)
    /\ outcome \in StepOutcomes(Steps[instStep])
    /\ instLog' = Append(instLog, [step |-> Steps[instStep], outcome |-> outcome])
    /\ IF StepFails(outcome)
       THEN /\ instSuccess' = FALSE
            /\ instPc' = "finish"
            /\ UNCHANGED <<instStep, instWarn>>
       ELSE /\ instWarn' = IF StepWarns(outcome)
                           THEN Append(instWarn, Steps[instStep]) ELSE instWarn
            /\ instStep' = instStep + 1
            /\ instPc' = IF instStep = Len(Steps) THEN "finish" ELSE "steps"
            /\ UNCHANGED instSuccess
    /\ UNCHANGED <<instEnv, instReq, instDir, instResult>>
    /\ UNCHANGED <<apiVars, wsVars, depVars, portVars>>

\* After the loop: the closing messages, the prompt and "return success".
InstallReturn ==
    /\ instPc = "finish"
    /\ instResult' = IF instSuccess THEN "True" ELSE "False"
    /\ instPc' = "returned"
    /\ UNCHANGED <<instEnv, instReq, instDir, instStep, instSuccess, instLog, instWarn>>
    /\ UNCHANGED <<apiVars, wsVars, depVars, portVars>>

InstNext ==
    \/ RunAsAdmin
    \/ CheckRequirements
    \/ \E o \in {"truthy", "falsy", "raise"} : RunStep(o)
    \/ InstallReturn

\* -------------------------------------------- install_python_dependencies

\* the list dependencies
dependencies ==
    <<"torch>=2.0.0", "ultralytics>=8.0.0", "opencv-python>=4.8.0",
      "fastapi>=0.104.0", "uvicorn>=0.24.0", "python-multipart>=0.0.6",
      "pillow>=10.0.0", "numpy>=1.24.0", "requests>=2.31.0", "aiofiles>=23.0.0",
      "jinja2>=3.1.0">>

\* How subprocess.run([sys.executable, "-m", "pip", "install", dep], check=True)
\* can end: pip exits with status 0; pip exits with another status, which
\* check=True turns into CalledProcessError; the interpreter cannot be started,
\* which raises OSError.
PipOutcomes == {"ok", "CalledProcessError", "OSError"}

\* "except subprocess.CalledProcessError"
CaughtInLoop(outcome) == outcome = "CalledProcessError"

\* A threshold rounded down to a whole number of packages.
EnoughInstalledFloor(count, total) == count >= (total * 8) \div 10

\* success_count >= len(dependencies) * 0.8.  The product is the double
\* nearest to total * 8 / 10, and no integer lies between the two for the
\* totals of this model, so the comparison is the one of exact arithmetic.
EnoughInstalled(count, total) == count * 10 >= total * 8

\* One iteration of "for dep in dependencies": pip is run for the dependency
\* and the outcome counted, reported or, for an exception the loop does not
\* catch, passed on to the caller.
PipInstall(outcome) ==
    /\ depPc = "loop"
    /\ depIdx <= Len(dependencies)
    /\ depLog' = Append(depLog, [dep |-> dependencies[depIdx], outcome |-> outcome])
    /\ IF outcome = "ok"
       THEN /\ success_count' = success_count + 1
            /\ depIdx' = depIdx + 1
            /\ UNCHANGED depPc
       ELSE IF CaughtInLoop(outcome)
       THEN /\ depIdx' = depIdx + 1
            /\ UNCHANGED <<depPc, success_count>>
       ELSE /\ depPc' = "raised"
            /\ UNCHANGED <<depIdx, success_count>>
    /\ UNCHANGED depResult
    /\ UNCHANGED <<apiVars, wsVars, instVars, portVars>>

\* After the loop: the summary line and the return statement.
DependenciesReturn ==
    /\ depPc = "loop"
    /\ depIdx > Len(dependencies)
    /\ depResult' = IF EnoughInstalled(success_count, Len(dependencies))
                    THEN "True" ELSE "False"
    /\ depPc' = "returned"
    /\ UNCHANGED <<depIdx, depLog, success_count>>
    /\ UNCHANGED <<apiVars, wsVars, instVars, portVars>>

DepsNext ==
    \/ \E o \in PipOutcomes : PipInstall(o)
    \/ DependenciesReturn

\* ---------------------------------------------------- find_available_port

\* the defaults of start_port and max_attempts
DefaultStartPort == 8000
DefaultMaxAttempts == 50

\* The calls of find_available_port: the one main() makes, with the defaults,
\* and calls with a few attempts or none.  Every port tried is a valid port
\* number.
PortCalls ==
    {[start_port |-> DefaultStartPort, max_attempts |-> DefaultMaxAttempts]}
    \cup [start_port : {DefaultStartPort, 8080}, max_attempts : 0..MaxAttempts]

\* list(range(start_port, start_port + max_attempts))
PortsToTry(args) == Range(args.start_port, args.start_port + args.max_attempts, 1)

\* How socket.socket(...) followed by s.bind(('localhost', port)) can end: the
\* port is bound, or the port is taken or may not be used and OSError is raised.
BindOutcomes == {"ok", "OSError"}

\* "except OSError: continue"
BindErrorCaught(outcome) == IsSubclass(outcome, "OSError")

\* A search that falls back to the last port it tried.
LastPortTried(args) == args.start_port + args.max_attempts - 1

\* "return start_port" after the loop
FallbackPort(args) == args.start_port

\* One iteration of "for port in range(...)": the socket is created, bound
\* and closed again, and the port returned, or the bind fails and the loop
\* goes on.
TryBind(outcome) ==
    /\ portPc = "loop"
    /\ portIdx <= Len(PortsToTry(portArgs))
    /\ LET port == PortsToTry(portArgs)[portIdx]
       IN /\ portLog' = Append(portLog, [port |-> port, outcome |-> outcome])
          /\ IF outcome = "ok"
             THEN /\ portResult' = port
                  /\ portPc' = "returned"
                  /\ UNCHANGED portIdx
             ELSE IF BindErrorCaught(outcome)
             THEN /\ portIdx' = portIdx + 1
                  /\ UNCHANGED <<portPc, portResult>>
             ELSE /\ portPc' = "raised"
                  /\ UNCHANGED <<portIdx, portResult>>
    /\ UNCHANGED portArgs
    /\ UNCHANGED <<apiVars, wsVars, instVars, depVars>>

\* The loop is over without a return.
NoPortFound ==
    /\ portPc = "loop"
    /\ portIdx > Len(PortsToTry(portArgs))
    /\ portResult' = FallbackPort(portArgs)
    /\ portPc' = "returned"
    /\ UNCHANGED <<portArgs, portIdx, portLog>>
    /\ UNCHANGED <<apiVars, wsVars, instVars, depVars>>

PortNext ==
    \/ \E o \in BindOutcomes : TryBind(o)
    \/ NoPortFound

\* The server has started: nothing uploaded, nothing in flight, the progress
\* connection accepted and awaiting its first frame.  The installer is not
\* running.
ServerInit ==
    /\ nextUuid = 0
    /\ fs = << >>
    /\ docs = {}
    /\ batches = {}
    /\ lastResp = [api |-> "none", req |-> <<>>, body |-> <<>>]
    /\ wsPc = "receive"
    /\ wsInbox = <<>>
    /\ wsMsg = NotJson
    /\ wsProgress = 1
    /\ wsLog = <<>>
    /\ clientGone = FALSE
    /\ clientLog = <<>>
    /\ instPc = "idle"
    /\ instEnv = [admin |-> TRUE, python |-> <<3, 8>>, disk |-> [ok |-> FALSE, free |-> 0]]
    /\ instReq = "not checked"
    /\ instDir = FALSE
    /\ instStep = 1
    /\ instSuccess = TRUE
    /\ instLog = <<>>
    /\ instWarn = <<>>
    /\ instResult = "none"
    /\ depPc = "idle"
    /\ depIdx = 1
    /\ depLog = <<>>
    /\ success_count = 0
    /\ depResult = "none"
    /\ portPc = "idle"
    /\ portArgs = [start_port |-> 8000, max_attempts |-> 50]
    /\ portIdx = 1
    /\ portLog = <<>>
    /\ portResult = -1

\* install() is called in some environment; the server is not running.
InstallerInit ==
    /\ nextUuid = 0
    /\ fs = << >>
    /\ docs = {}
    /\ batches = {}
    /\ lastResp = [api |-> "none", req |-> <<>>, body |-> <<>>]
    /\ wsPc = "idle"
    /\ wsInbox = <<>>
    /\ wsMsg = NotJson
    /\ wsProgress = 1
    /\ wsLog = <<>>
    /\ clientGone = FALSE
    /\ clientLog = <<>>
    /\ instPc = "start"
    /\ instEnv \in InstallEnvs
    /\ instReq = "not checked"
    /\ instDir = FALSE
    /\ instStep = 1
    /\ instSuccess = TRUE
    /\ instLog = <<>>
    /\ instWarn = <<>>
    /\ instResult = "none"
    /\ depPc = "idle"
    /\ depIdx = 1
    /\ depLog = <<>>
    /\ success_count = 0
    /\ depResult = "none"
    /\ portPc = "idle"
    /\ portArgs = [start_port |-> 8000, max_attempts |-> 50]
    /\ portIdx = 1
    /\ portLog = <<>>
    /\ portResult = -1

\* install_python_dependencies is called, as install() calls it for its
\* second step.
DepsInit ==
    /\ nextUuid = 0
    /\ fs = << >>
    /\ docs = {}
    /\ batches = {}
    /\ lastResp = [api |-> "none", req |-> <<>>, body |-> <<>>]
    /\ wsPc = "idle"
    /\ wsInbox = <<>>
    /\ wsMsg = NotJson
    /\ wsProgress = 1
    /\ wsLog = <<>>
    /\ clientGone = FALSE
    /\ clientLog = <<>>
    /\ instPc = "steps"
    /\ instEnv = [admin |-> TRUE, python |-> <<3, 8>>, disk |-> [ok |-> FALSE, free |-> 0]]
    /\ instReq = "True"
    /\ instDir = TRUE
    /\ instStep = 2
    /\ instSuccess = TRUE
    /\ instLog = <<[step |-> "install_main_application", outcome |-> "truthy"]>>
    /\ instWarn = <<>>
    /\ instResult = "none"
    /\ depPc = "loop"
    /\ depIdx = 1
    /\ depLog = <<>>
    /\ success_count = 0
    /\ depResult = "none"
    /\ portPc = "idle"
    /\ portArgs = [start_port |-> 8000, max_attempts |-> 50]
    /\ portIdx = 1
    /\ portLog = <<>>
    /\ portResult = -1

\* find_available_port is called, as main() calls it before it starts the
\* server.
PortInit ==
    /\ nextUuid = 0
    /\ fs = << >>
    /\ docs = {}
    /\ batches = {}
    /\ lastResp = [api |-> "none", req |-> <<>>, body |-> <<>>]
    /\ wsPc = "idle"
    /\ wsInbox = <<>>
    /\ wsMsg = NotJson
    /\ wsProgress = 1
    /\ wsLog = <<>>
    /\ clientGone = FALSE
    /\ clientLog = <<>>
    /\ instPc = "idle"
    /\ instEnv = [admin |-> TRUE, python |-> <<3, 8>>, disk |-> [ok |-> FALSE, free |-> 0]]
    /\ instReq = "not checked"
    /\ instDir = FALSE
    /\ instStep = 1
    /\ instSuccess = TRUE
    /\ instLog = <<>>
    /\ instWarn = <<>>
    /\ instResult = "none"
    /\ depPc = "idle"
    /\ depIdx = 1
    /\ depLog = <<>>
    /\ success_count = 0
    /\ depResult = "none"
    /\ portPc = "loop"
    /\ portArgs \in PortCalls
    /\ portIdx = 1
    /\ portLog = <<>>
    /\ portResult = -1

\* The steps of the coroutines in flight.
Progress ==
    \/ \E d \in docs : ReadFails(d)
    \/ \E d \in docs : ReadCompletes(d)
    \/ \E d \in docs : SleepCompletes(d)

\* Concurrent clients: uploads with the form defaults, batches and history
\* queries arrive while earlier requests are still in flight.
ApiNext ==
    \/ \E f \in UploadFiles : AnalyzeDocument(f, DefaultOptions)
    \/ \E fl \in SeqsUpTo(BatchFiles, MaxBatchLen) : BatchAnalyze(fl)
    \/ \E q \in HistoryQueries : GetHistory(q.page, q.limit)
    \/ Progress

SpecApi == ServerInit /\ [][ApiNext]_vars

\* One client at a time, every combination of the analysis options.
Idle == docs = {} /\ batches = {}

DocNext ==
    \/ \E f \in UploadFiles, o \in AllOptions : Idle /\ AnalyzeDocument(f, o)
    \/ \E fl \in SeqsUpTo(BatchFiles, MaxBatchLen) : Idle /\ BatchAnalyze(fl)
    \/ \E t \in {"t1", "t2"}, o \in AllOptions :
          Idle /\ ProcessorProcess(FilePath(t, <<"a.png">>), t, o)
    \/ Progress

SpecDoc == ServerInit /\ [][DocNext]_vars

\* The progress connection, while one upload is made and analysed.
WsNext ==
    \/ \E data \in ClientFrames : ClientSend(data)
    \/ ClientDisconnect
    \/ WsReceive
    \/ WsEmit
    \/ nextUuid = 0 /\ AnalyzeDocument([filename |-> <<"a.png">>, content |-> <<7>>],
                                        DefaultOptions)
    \/ Progress

SpecWs == ServerInit /\ [][WsNext]_vars

SpecInstall == InstallerInit /\ [][InstNext]_vars

SpecDeps == DepsInit /\ [][DepsNext]_vars

SpecPort == PortInit /\ [][PortNext]_vars

\* ------------------------------------------ properties: the progress channel

IsPrefix(s, t) == Len(s) <= Len(t) /\ SubSeq(t, 1, Len(s)) = s

IsRecv(i) == wsLog[i].ev = "recv"
IsSend(i) == wsLog[i].ev = "send"

\* wsLog[i] is the receipt of a subscribe_progress message carrying a task_id.
IsSubscription(i) ==
    /\ IsRecv(i)
    /\ wsLog[i].data.json = "object"
    /\ wsLog[i].data.type = "subscribe_progress"
    /\ wsLog[i].data.task_id /= Missing

\* The number of updates sent for the message received at i: the entries that
\* follow it up to the next receipt.
UpdatesAfter(i) ==
    LET later == {j \in (i + 1)..Len(wsLog) : IsRecv(j)}
    IN IF later = {} THEN Len(wsLog) - i
       ELSE (CHOOSE j \in later : \A k \in later : j <= k) - i - 1

\* The handler is still emitting for the message received at i.
StillEmitting(i) == wsPc = "emit" /\ \A j \in (i + 1)..Len(wsLog) : IsSend(j)

ElevenValues == <<0, 10, 20, 30, 40, 50, 60, 70, 80, 90, 100>>

\* The k updates after the subscription received at i are the first k of the
\* fixed sequence, each for that subscription's task_id.
IsProgressPrefix(i, k) ==
    /\ k <= Len(ElevenValues)
    /\ \A n \in 1..k :
          wsLog[i + n] =
             Sent([type |-> "progress_update", task_id |-> wsLog[i].data.task_id,
                   progress |-> ElevenValues[n], status |-> "processing"])

\* C1 as stated: for every subscribe_progress message with a task_id that the
\* handler has taken and is no longer emitting for, exactly 11 updates were
\* sent: 0, 10, ..., 100 in this order, each "processing", each with the
\* task_id of that message.
C1_ExactlyElevenUpdates ==
    \A i \in 1..Len(wsLog) :
       IsSubscription(i) /\ ~StillEmitting(i) =>
          UpdatesAfter(i) = 11 /\ IsProgressPrefix(i, 11)

\* C1, amended: the updates sent for a subscribe_progress message with a
\* task_id are always the first k of 0, 10, ..., 100, in this order, each
\* "processing" and each with the task_id of that message, whatever uploads
\* exist or are in flight; k is 11 once the handler has gone on to the next
\* message, and less than 11 only while it is still emitting or when the client
\* closed the connection during the emission, which ends the sequence early.
C1_ElevenUpdatesUnlessClosed ==
    \A i \in 1..Len(wsLog) :
       IsSubscription(i) =>
          /\ IsProgressPrefix(i, UpdatesAfter(i))
          /\ UpdatesAfter(i) < 11 /\ ~StillEmitting(i) =>
                clientGone /\ wsPc \in {"ended", "crashed"}
          /\ (wsPc = "receive" \/ \E j \in (i + 1)..Len(wsLog) : IsRecv(j)) =>
                UpdatesAfter(i) = 11

\* The eleven updates of a subscription have been sent while an upload was
\* being analysed.
C1_Witness ==
    /\ Len(wsLog) = 12
    /\ IsSubscription(1)
    /\ wsLog[12].msg.progress = 100
    /\ wsPc = "receive"
    /\ docs /= {}

\* the frames the handler has taken, in the order it took them
RECURSIVE FramesTaken(_)
FramesTaken(log) ==
    IF log = <<>> THEN <<>>
    ELSE IF Head(log).ev = "recv"
    THEN <<Head(log).data>> \o FramesTaken(Tail(log))
    ELSE FramesTaken(Tail(log))

C7_State ==
    /\ IsPrefix(FramesTaken(wsLog), clientLog)
    /\ \A i \in 1..Len(wsLog) :
          IsSubscription(i) =>
             /\ \A n \in 1..UpdatesAfter(i) :
                   /\ IsSend(i + n)
                   /\ wsLog[i + n].msg.task_id = wsLog[i].data.task_id
             /\ \A j \in (i + 1)..Len(wsLog) :
                   IsRecv(j) => \E k \in (i + 1)..(j - 1) :
                                   /\ IsSend(k)
                                   /\ wsLog[k].msg.task_id = wsLog[i].data.task_id
                                   /\ wsLog[k].msg.progress = 100

C7_Step ==
    wsPc = "emit" =>
       /\ IsPrefix(wsInbox, wsInbox')
       /\ FramesTaken(wsLog') = FramesTaken(wsLog)

\* C7: while the updates of one subscription are being emitted the handler
\* takes no frame from the connection (they stay queued); a frame is handled
\* only after the update with progress 100 of every subscription taken before
\* it has been sent; the updates between two receipts all belong to one
\* subscription; and frames are handled in the order the client sent them.
C7_NoCancelNoInterleave == []C7_State /\ [][C7_Step]_vars

\* In the middle of an emission a second subscription is waiting in the queue.
C7_Witness ==
    /\ wsPc = "emit"
    /\ wsProgress = 6
    /\ wsInbox /= <<>>
    /\ Head(wsInbox) = JsonObject("subscribe_progress", "t2")
    /\ wsMsg.task_id = "t1"

\* wsLog[i] is the receipt of a JSON object whose type is not
\* subscribe_progress.
IsOtherMessage(i) ==
    /\ IsRecv(i)
    /\ wsLog[i].data.json = "object"
    /\ wsLog[i].data.type /= "subscribe_progress"

\* The handler awaits the next frame, or has ended because that frame was the
\* client's disconnect.
WaitingOrClientLeft == wsPc = "receive" \/ (wsPc = "ended" /\ clientGone)

C13_State ==
    /\ \A i \in 1..Len(wsLog) :
          /\ IsOtherMessage(i) =>
                /\ i < Len(wsLog) => IsRecv(i + 1)
                /\ i = Len(wsLog) => WaitingOrClientLeft
          /\ IsSubscription(i) /\ UpdatesAfter(i) = 11 /\ Len(wsLog) = i + 11 =>
                WaitingOrClientLeft
    /\ wsPc = "ended" => clientGone

C13_Step ==
    /\ \A data \in ClientFrames :
          (/\ data.json = "object"
           /\ data.type /= "subscribe_progress"
           /\ wsLog' = Append(wsLog, Received(data)))
          => wsPc' = "receive"
    /\ (/\ Len(wsLog') = Len(wsLog) + 1
        /\ wsLog'[Len(wsLog')].ev = "send"
        /\ wsLog'[Len(wsLog')].msg.progress = 100)
          => wsPc' = "receive"
    /\ wsPc /= "ended" /\ wsPc' = "ended" => clientGone

\* C13: a well-formed message (a JSON object) whose type is not
\* subscribe_progress causes no message to be sent and leaves the handler
\* awaiting the next frame of the same connection; the handler ends normally
\* only when the client has disconnected; after the update with progress 100
\* of a subscription it awaits the next frame again and does not close the
\* connection.
C13_OtherMessagesIgnoredHandlerWaits == []C13_State /\ [][C13_Step]_vars

\* A ping and then a subscription were received on one connection, the 11
\* updates of the subscription were sent, and the handler awaits the next
\* frame.
C13_Witness ==
    /\ Len(wsLog) = 13
    /\ IsOtherMessage(1)
    /\ wsLog[1].data.type = "ping"
    /\ IsSubscription(2)
    /\ UpdatesAfter(2) = 11
    /\ wsPc = "receive"
    /\ ~clientGone

\* ------------------------------------------------- properties: the upload API

IsAnalyze == lastResp.api = "analyze"
IsBatch == lastResp.api = "batch"
Returned(value) == "success" \in DOMAIN value
Succeeded(value) == Returned(value) /\ value.success

\* The two values a process_document call can end with.
SuccessShape(value) ==
    /\ DOMAIN value = {"success", "task_id", "result"}
    /\ value.success = TRUE
FailureShape(value) ==
    /\ DOMAIN value = {"success", "error"}
    /\ value.success = FALSE

\* C2: process_document never lets an exception escape.  When the read or the
\* write raised, the call returned exactly {success: false, error: str(e)},
\* with no task_id and no result; when nothing was raised it returned
\* {success: true, task_id, result}.  Every call, also one made by
\* process_batch, ends in one of these two values.
C2_NoExceptionEscapes ==
    /\ IsAnalyze =>
          /\ Returned(lastResp.body)
          /\ IF lastResp.req.raised = NoExc
             THEN SuccessShape(lastResp.body)
             ELSE /\ FailureShape(lastResp.body)
                  /\ lastResp.body.error = lastResp.req.raised.msg
    /\ IsBatch =>
          /\ Returned(lastResp.body)
          /\ \A i \in 1..Len(lastResp.body.results) :
                LET e == lastResp.body.results[i]
                IN Returned(e) /\ (SuccessShape(e) \/ FailureShape(e))

\* The read raised a ValueError and the call answered with its message.
C2_Witness ==
    /\ IsAnalyze
    /\ lastResp.req.raised.cls = "ValueError"
    /\ Returned(lastResp.body)
    /\ lastResp.body.error = "I/O operation on closed file."

OneTo(n) == [i \in 1..n |-> i]

\* C3: process_batch has no partial-failure semantics.  Its response has
\* success = true, processed_files = the number of files submitted and one
\* entry per file in submission order (a file that fails leaves its
\* success=false value at its own position); every file is attempted exactly
\* once and in order, a failure does not stop the later files, and a file is
\* started only when the file before it has finished.
C3_BatchAttemptsEveryFile ==
    /\ IsBatch =>
          LET files == lastResp.req.files
              body == lastResp.body
          IN /\ Returned(body) /\ body.success = TRUE
             /\ body.processed_files = Len(files)
             /\ Len(body.results) = Len(files)
             /\ lastResp.req.attempts = OneTo(Len(files))
             /\ \A i \in 1..Len(files) :
                   LET e == body.results[i]
                   IN /\ SuccessShape(e) \/ FailureShape(e)
                      /\ e.success => e.result.filename = files[i].filename
                      /\ Len(files[i].filename) > 1 => ~e.success
    /\ \A b \in batches :
          /\ Len(b.results) < Len(b.files)
          /\ b.attempts = OneTo(Len(b.results) + 1)
          /\ \E d \in docs :
                /\ d.owner = b.task_id
                /\ d.file = b.files[Len(b.results) + 1]
                /\ \A o \in docs : o.owner = b.task_id => o = d

\* A batch of two files answered: the first file failed, the second was stored.
C3_Witness ==
    /\ IsBatch
    /\ Len(lastResp.req.files) = 2
    /\ Returned(lastResp.body)
    /\ ~lastResp.body.results[1].success
    /\ lastResp.body.results[2].success

\* The counts and the confidence of the successful results in a response,
\* with the two detection flags they were asked with.
Outcome(opts, result) ==
    [detect_signatures |-> opts.detect_signatures,
     detect_seals |-> opts.detect_seals,
     signatures_found |-> result.signatures_found,
     seals_found |-> result.seals_found,
     confidence |-> result.analysis.confidence]

OutcomesOf(resp) ==
    IF resp.api = "analyze" /\ Succeeded(resp.body)
    THEN {Outcome(resp.req.opts, resp.body.result)}
    ELSE IF resp.api = "batch" /\ Returned(resp.body)
    THEN {Outcome([detect_signatures |-> TRUE, detect_seals |-> TRUE],
                  resp.body.results[i].result) :
             i \in {j \in 1..Len(resp.body.results) : resp.body.results[j].success}}
    ELSE {}

CountsOf(resp) ==
    {<<o.signatures_found, o.seals_found, o.confidence>> : o \in OutcomesOf(resp)}

ProcessorCountsOf(resp) ==
    IF resp.api = "processor" THEN {resp.body.results} ELSE {}

\* C4 as stated: whatever the file, the flags and the language hint, every
\* successful processing result reports the same signature count, the same
\* seal count and the same confidence (compared between one response and the
\* next).
C4_SameCountsWhateverTheInput ==
    [][\A a \in CountsOf(lastResp), b \in CountsOf(lastResp') : a = b]_vars

\* C4, amended: DocumentProcessor.process returns the same fixed counts and
\* score for every input.  process_document reports the same confidence for
\* every input, and the same signature and seal counts for every file and
\* language hint as long as detect_signatures and detect_seals are the same;
\* the counts differ between combinations of these two flags.
C4_SameCountsForSameFlags ==
    [][/\ \A a \in OutcomesOf(lastResp), b \in OutcomesOf(lastResp') :
             /\ a.confidence = b.confidence
             /\ (a.detect_signatures = b.detect_signatures
                   /\ a.detect_seals = b.detect_seals)
                => (a.signatures_found = b.signatures_found
                      /\ a.seals_found = b.seals_found)
       /\ \A a \in ProcessorCountsOf(lastResp), b \in ProcessorCountsOf(lastResp') :
             a = b
      ]_vars

\* An upload analysed without signature detection, with another language hint.
C4_Witness ==
    /\ IsAnalyze /\ Succeeded(lastResp.body)
    /\ ~lastResp.req.opts.detect_signatures
    /\ lastResp.req.opts.language = "ru"
    /\ lastResp.body.result.signatures_found = 0

\* C5: get_history returns total = 0 and results = [] and echoes page and
\* limit, for every page and limit and whatever has been uploaded.
C5_HistoryAlwaysEmpty ==
    lastResp.api = "history" =>
        lastResp.body = [page |-> lastResp.req.page, limit |-> lastResp.req.limit,
                         total |-> 0, results |-> <<>>]

\* A history query with a negative page, answered while files are stored and
\* an upload is in flight.
C5_Witness ==
    /\ lastResp.api = "history"
    /\ lastResp.req.page < 0
    /\ DOMAIN fs /= {}
    /\ docs /= {}

\* The path an upload is stored under, written out.
StoredPath(task_id, filename) == <<"uploads", task_id \o "_" \o filename[1]>>

StoredVerbatim(value, file) ==
    /\ value.task_id = value.result.task_id
    /\ Len(file.filename) = 1
    /\ StoredPath(value.task_id, file.filename) \in DOMAIN fs
    /\ fs[StoredPath(value.task_id, file.filename)] = file.content

C6_State ==
    /\ IsAnalyze /\ Succeeded(lastResp.body) =>
          StoredVerbatim(lastResp.body, lastResp.req.file)
    /\ IsBatch /\ Returned(lastResp.body) =>
          \A i \in 1..Len(lastResp.body.results) :
             LET e == lastResp.body.results[i]
             IN e.success => /\ StoredVerbatim(e, lastResp.req.files[i])
                             /\ e.task_id /= lastResp.body.task_id
    /\ \A d \in docs :
          /\ d.task_id /= d.owner
          /\ \A o \in docs : o /= d => o.task_id /= d.task_id
          /\ d.pc = "sleep" =>
                /\ StoredPath(d.task_id, d.file.filename) \in DOMAIN fs
                /\ fs[StoredPath(d.task_id, d.file.filename)] = d.file.content

C6_Step == \A p \in DOMAIN fs : p \in DOMAIN fs' /\ fs'[p] = fs[p]

\* C6: a successful process_document call has written exactly the bytes it
\* read to uploads/<task_id>_<filename>, task_id being the identifier of its
\* response (task_id and result.task_id); no step changes or removes a file
\* that is stored, so no upload overwrites the file of another, also when
\* uploads of the same filename run concurrently; the task_id of a batch
\* differs from the task_id of each of its files.
C6_StoredVerbatimUnderOwnId == []C6_State /\ [][C6_Step]_vars

\* An upload has answered while another upload of the same filename with
\* other bytes was in flight and had written its file.
C6_Witness ==
    /\ IsAnalyze /\ Succeeded(lastResp.body)
    /\ \E d \in docs :
          /\ d.pc = "sleep"
          /\ d.file.filename = lastResp.req.file.filename
          /\ d.file.content /= lastResp.req.file.content

\* C10: a successful process_document result has signatures_found = 2 or 0 as
\* detect_signatures is true or false, seals_found = 1 or 0 as detect_seals is,
\* quality_enhanced = enhance_quality, and nothing else of it depends on the
\* language hint or on the bytes (only filename and task_id vary);
\* process_batch passes all three flags true and language "auto", so every
\* successful batch entry reports 2 signatures and 1 seal.
C10_CountsFollowFlags ==
    /\ IsAnalyze /\ Succeeded(lastResp.body) =>
          lastResp.body.result =
             [task_id |-> lastResp.body.task_id,
              filename |-> lastResp.req.file.filename,
              processed |-> TRUE,
              signatures_found |-> IF lastResp.req.opts.detect_signatures THEN 2 ELSE 0,
              seals_found |-> IF lastResp.req.opts.detect_seals THEN 1 ELSE 0,
              quality_enhanced |-> lastResp.req.opts.enhance_quality,
              analysis |-> [confidence |-> "0.95", processing_time |-> "2.1s",
                            document_type |-> "contract"]]
    /\ IsBatch /\ Returned(lastResp.body) =>
          \A i \in 1..Len(lastResp.body.results) :
             LET e == lastResp.body.results[i]
             IN e.success => /\ e.result.signatures_found = 2
                             /\ e.result.seals_found = 1
                             /\ e.result.quality_enhanced = TRUE
    /\ \A d \in docs :
          d.owner /= NoOwner =>
             d.opts = [enhance_quality |-> TRUE, detect_signatures |-> TRUE,
                       detect_seals |-> TRUE, language |-> "auto"]

\* Seal detection on, signature detection off, quality enhancement off.
C10_Witness ==
    /\ IsAnalyze /\ Succeeded(lastResp.body)
    /\ lastResp.req.opts.detect_seals
    /\ ~lastResp.req.opts.detect_signatures
    /\ ~lastResp.req.opts.enhance_quality
    /\ lastResp.body.result.seals_found = 1

\* ----------------------------------------------- properties: the installer

EightSteps ==
    <<"install_main_application", "install_python_dependencies",
      "create_desktop_shortcut", "create_start_menu_entry", "add_uninstall_entry",
      "create_uninstaller", "create_sample_data", "finalize_installation">>

Raised(i) == instLog[i].outcome = "raise"
SomeStepRaised == \E i \in 1..Len(instLog) : Raised(i)

\* the steps that ended with a falsy value, in the order they ran
RECURSIVE FalsySteps(_)
FalsySteps(log) ==
    IF log = <<>> THEN <<>>
    ELSE IF Head(log).outcome = "falsy"
    THEN <<Head(log).step>> \o FalsySteps(Tail(log))
    ELSE FalsySteps(Tail(log))

\* C8: install() calls its eight steps in the fixed order main application,
\* Python dependencies, desktop shortcut, Start Menu entry, uninstall entry,
\* uninstaller, sample data, finalize; a step is called only after all
\* earlier steps returned without raising; the first step that raises ends the
\* procedure and install() returns False; a falsy return value only produces
\* a warning and the next step still runs; install() returns True exactly when
\* the requirements check passed and no step raised, also when
\* install_python_dependencies returned False.
C8_StepsInOrderStopAtFirstRaise ==
    /\ Len(instLog) <= 8
    /\ \A i \in 1..Len(instLog) :
          /\ instLog[i].step = EightSteps[i]
          /\ Raised(i) => i = Len(instLog)
    /\ instWarn = FalsySteps(instLog)
    /\ SomeStepRaised => instPc \in {"finish", "returned"}
    /\ instPc = "steps" => instLog /= <<>> \/ instReq = "True"
    /\ instPc \in {"finish", "returned"} /\ instReq = "True" /\ ~SomeStepRaised =>
          Len(instLog) = 8
    /\ instPc = "returned" =>
          /\ instResult \in {"True", "False"}
          /\ instResult = "True" <=> (instReq = "True" /\ ~SomeStepRaised)
    /\ instPc /= "returned" => instResult = "none"

\* install() returned True although install_python_dependencies returned
\* False and other steps returned None.
C8_Witness ==
    /\ instPc = "returned"
    /\ instResult = "True"
    /\ Len(instLog) = 8
    /\ instLog[2].outcome = "falsy"
    /\ Len(instWarn) >= 5

\* C9: when check_system_requirements returns False, install() returns False
\* without creating the installation directory and without running any step;
\* check_system_requirements returns False exactly when the Python version is
\* below 3.8 or the measured free disk space is below 2 GB; a measurement that
\* fails does not by itself make it return False.
C9_RequirementsGate ==
    LET python == instEnv.python
        below38 == python[1] < 3 \/ (python[1] = 3 /\ python[2] < 8)
        below2GB == instEnv.disk.ok /\ instEnv.disk.free < 2097152
    IN /\ instReq = "False" =>
             /\ instPc = "returned"
             /\ instResult = "False"
             /\ ~instDir
             /\ instLog = <<>>
       /\ instReq /= "not checked" => (instReq = "False" <=> (below38 \/ below2GB))
       /\ instPc \in {"steps", "finish"} => instReq = "True" /\ instDir
       /\ instLog /= <<>> => instReq = "True" /\ instDir

\* The disk could not be measured and the Python version is too old:
\* install() has returned False.
C9_Witness ==
    /\ instPc = "returned"
    /\ instReq = "False"
    /\ ~instEnv.disk.ok
    /\ instResult = "False"

\* ------------------------------- properties: install_python_dependencies

\* the pip runs that ended with status 0
Installed == {i \in 1..Len(depLog) : depLog[i].outcome = "ok"}

\* the pip runs that ended with another status
FailedInstalls == {i \in 1..Len(depLog) : depLog[i].outcome = "CalledProcessError"}

\* C11: install_python_dependencies attempts each of its 11 dependencies
\* exactly once, in list order: the runs made so far are the first entries of
\* the list, one run each, and when the function returns all 11 have been run.
\* A failed installation never prevents the attempt of the dependencies after
\* it: after a run that failed the loop stands at the next dependency.  The
\* function returns True exactly when at least 9 installations succeeded, and
\* False when 8 or fewer did.
C11_EachAttemptedOnceThreshold80 ==
    /\ Len(dependencies) = 11
    /\ Len(depLog) <= 11
    /\ \A i \in 1..Len(depLog) :
          /\ depLog[i].dep = dependencies[i]
          /\ depLog[i].outcome \notin {"ok", "CalledProcessError"} =>
                i = Len(depLog) /\ depPc = "raised"
    /\ success_count = Cardinality(Installed)
    /\ \A i \in FailedInstalls :
          \/ Len(depLog) > i
          \/ i = 11 /\ depPc \in {"loop", "returned"}
          \/ i < 11 /\ depPc = "loop" /\ depIdx = i + 1
    /\ depPc = "returned" =>
          /\ Len(depLog) = 11
          /\ depResult \in {"True", "False"}
          /\ depResult = "True" <=> Cardinality(Installed) >= 9
          /\ depResult = "False" <=> Cardinality(Installed) <= 8
    /\ depPc /= "returned" => depResult = "none"

\* The first installation failed, the ten after it were attempted, eight of
\* them succeeded, and the function returned False.
C11_Witness ==
    /\ depPc = "returned"
    /\ depLog[1].outcome = "CalledProcessError"
    /\ Len(depLog) = 11
    /\ Cardinality(Installed) = 8
    /\ depResult = "False"

\* --------------------------------------- properties: find_available_port

\* the binds that succeeded
BoundAt == {i \in 1..Len(portLog) : portLog[i].outcome = "ok"}

\* C12: find_available_port tries the ports start_port, start_port + 1, ...
\* below start_port + max_attempts in increasing order and stops at the first
\* bind that succeeds, returning that port, the lowest of the range to which
\* a bind succeeded; when no bind of the range succeeds it returns start_port,
\* a port it has found to be unavailable, and reports no error; the result is
\* within [start_port, start_port + max_attempts), or is start_port when
\* max_attempts is 0.
C12_LowestBindablePortOrStart ==
    LET start_port == portArgs.start_port
        max_attempts == portArgs.max_attempts
    IN /\ Len(portLog) <= max_attempts
       /\ \A i \in 1..Len(portLog) : portLog[i].port = start_port + i - 1
       /\ \A i \in BoundAt :
             /\ i = Len(portLog)
             /\ portPc = "returned"
             /\ portResult = portLog[i].port
       /\ portPc \in {"loop", "returned"}
       /\ portPc = "loop" => BoundAt = {} /\ portIdx = Len(portLog) + 1
       /\ portPc = "returned" /\ BoundAt = {} =>
             /\ Len(portLog) = max_attempts
             /\ portResult = start_port
             /\ max_attempts > 0 =>
                   portLog[1].port = portResult /\ portLog[1].outcome = "OSError"
       /\ portPc = "returned" =>
             IF max_attempts = 0 THEN portResult = start_port
             ELSE start_port <= portResult /\ portResult < start_port + max_attempts

\* The call main() makes found none of its 50 ports free and returned 8000.
C12_Witness ==
    /\ portPc = "returned"
    /\ portArgs = [start_port |-> 8000, max_attempts |-> 50]
    /\ Len(portLog) = 50
    /\ BoundAt = {}
    /\ portResult = 8000

====
